---- MODULE Spec2Model ----
(***************************************************************************)
(* State-machine model of the NgbDropdown directive of                     *)
(* src/src/dropdown/dropdown.ts: the open/close state, the outside-click   *)
(* listener, the body container of the menu panel, the placement classes   *)
(* and the lifecycle hooks, driven by the events the host delivers.        *)
(*                                                                         *)
(* Every method of the directive is an operator from a snapshot of the     *)
(* directive's state (a record) to the snapshot after the call; a method   *)
(* that ends in an uncaught TypeError returns the state reached when the   *)
(* exception left it, with threw = TRUE.  The actions of Next are the      *)
(* entry points the host and the application call.                         *)
(***************************************************************************)
EXTENDS Naturals, Sequences, FiniteSets

VARIABLES
  phase,                  \* lifecycle: "constructed", "ready" (after ngOnInit), "destroyed"
  hasMenu,                \* a NgbDropdownMenu content child is registered (_menu, _menuElement)
  origParent,             \* the parent element of the menu panel in the template
  _open,                  \* NgbDropdown._open
  autoClose,              \* NgbDropdown.autoClose: "false", "true", "inside", "outside"
  container,              \* NgbDropdown.container: "null" or "body"
  placement,              \* NgbDropdown.placement, as the list of candidates
  _outsideClickListener,  \* the remove handle: "undefined", "live" or "removed"
  _bodyContainer,         \* NgbDropdown._bodyContainer is a non-null element
  _zoneSubscription,      \* the ngZone.onStable subscription is live
  listeners,              \* number of live document click listeners of this directive
  bodyContainers,         \* number of container elements of this directive in document.body
  menuParent,             \* where the menu panel is: "host", "inner" or "container"
  menuPosition,           \* the panel's position style: "none" or "static"
  menuPlacement,          \* NgbDropdownMenu.placement
  hostClass,              \* placement class of the dropdown element: "none", "dropup", "dropdown"
  containerClass,         \* placement class of the body container element
  emitted,                \* payloads openChange emitted during the last call
  threw,                  \* the last call ended in an uncaught TypeError
  lastCall,               \* the entry point that ran last
  event,                  \* the click event of the last document click
  changedInputs,          \* the inputs named by the SimpleChanges of the last ngOnChanges
  placementInput,         \* the placement last configured (NgbDropdownConfig or the input)
  geometry,               \* the placements that fit at the last layout-stable signal
  observed                \* what the openChange observer saw at each emission of the last call

vars == <<phase, hasMenu, origParent, _open, autoClose, container, placement,
          _outsideClickListener, _bodyContainer, _zoneSubscription, listeners,
          bodyContainers, menuParent, menuPosition, menuPlacement, hostClass,
          containerClass, emitted, threw, lastCall, event, changedInputs,
          placementInput,
          geometry, observed>>

(***************************************************************************)
(* Bounds and input domains.                                               *)
(***************************************************************************)
\* Cap on live document listeners (only a faulty registration path reaches it).
MaxListeners == 3
\* Longest configured list of candidate placements.
MaxPlacements == 2
\* Deepest nesting of calls the openChange observer makes from its handler.
MaxReentry == 1

\* MouseEvent.button of the secondary button, tested by closeFromClick.
SecondaryButton == 2

Buttons == {0, 1, 2}
Origins == {"anchor", "menu", "outside"}
AutoCloseModes == {"false", "true", "inside", "outside"}
Containers == {"null", "body"}
Placements == {"top", "bottom-left"}

PlacementLists ==
  {l \in UNION {[1..n -> Placements] : n \in 1..MaxPlacements} :
     \A i, j \in 1..Len(l) : i # j => l[i] # l[j]}

NoEvent == [origin |-> "none", button |-> 0]

\* A click cannot come from a menu panel that is not there.
ClickEvents ==
  {[origin |-> o, button |-> b] :
     o \in (IF hasMenu THEN Origins ELSE Origins \ {"menu"}), b \in Buttons}

(***************************************************************************)
(* The directive's state as one record, and the start of a call.           *)
(***************************************************************************)
This ==
  [_open |-> _open, autoClose |-> autoClose, container |-> container,
   placement |-> placement, _outsideClickListener |-> _outsideClickListener,
   _bodyContainer |-> _bodyContainer, _zoneSubscription |-> _zoneSubscription,
   listeners |-> listeners, bodyContainers |-> bodyContainers,
   menuParent |-> menuParent, menuPosition |-> menuPosition,
   menuPlacement |-> menuPlacement, hostClass |-> hostClass,
   containerClass |-> containerClass, emitted |-> <<>>, threw |-> FALSE,
   changedInputs |-> {}, placementInput |-> placementInput, geometry |-> {},
   observed |-> <<>>, positioned |-> FALSE, reaction |-> "none", reentry |-> 0,
   fits |-> {}]

\* What a subscriber of openChange can read of the directive when it is called.
Snapshot(s, v) ==
  [payload |-> v, isOpen |-> s._open, container |-> s.container,
   detached |-> s._bodyContainer, listeners |-> s.listeners,
   handle |-> s._outsideClickListener, positioned |-> s.positioned]

RECURSIVE open(_, _), close(_)

\* openChange.emit(v): the subscriber runs synchronously, before emit returns,
\* and may call back into the directive (s.reaction, while s.reentry allows).
emit(s, v) ==
  LET s1 == [s EXCEPT !.emitted = Append(@, v),
                      !.observed = Append(@, Snapshot(s, v))]
      s2 == [s1 EXCEPT !.reentry = IF @ > 0 THEN @ - 1 ELSE 0]
  IN IF s1.reentry > 0
     THEN CASE s1.reaction = "open" -> open(s2, s2.fits)
            [] s1.reaction = "close" -> close(s2)
            [] s1.reaction = "toggle" ->
                 IF s2._open THEN close(s2) ELSE open(s2, s2.fits)
            [] OTHER -> s1
     ELSE s1

\* An uncaught TypeError leaves the method here.
throw(s) == [s EXCEPT !.threw = TRUE]

\* autoClose as a condition: every value but false is truthy.
Truthy(a) == a # "false"

\* placement.search('^top') !== -1
IsTop(p) == p \in {"top", "top-left"}

(***************************************************************************)
(* Collaborators: the anchor, the menu panel, the renderer, the resolver.  *)
(***************************************************************************)
\* NgbDropdownAnchor.isEventFrom through _isEventFromToggle
_isEventFromToggle(ev) == ev.origin = "anchor"

\* this._menu ? this._menu.isEventFrom($event) : false
_isEventFromMenu(ev) == IF hasMenu THEN ev.origin = "menu" ELSE FALSE

\* positionElements of ../util/positioning: the first candidate that fits,
\* the first candidate when none fits.
positionElements(candidates, fits) ==
  IF \E i \in 1..Len(candidates) : candidates[i] \in fits
  THEN candidates[CHOOSE i \in 1..Len(candidates) :
                    /\ candidates[i] \in fits
                    /\ \A j \in 1..(i - 1) : candidates[j] \notin fits]
  ELSE candidates[1]

\* this._renderer.listen('document', 'click', ...) and the handle it returns
_registerListener(s) ==
  [s EXCEPT !.listeners = @ + 1, !._outsideClickListener = "live"]

\* this._outsideClickListener(): removes the listener the handle was returned
\* for; calling undefined is a TypeError; a second call removes nothing.
callOutsideClickListener(s) ==
  CASE s._outsideClickListener = "undefined" -> throw(s)
    [] s._outsideClickListener = "live" ->
         [s EXCEPT !.listeners = @ - 1, !._outsideClickListener = "removed"]
    [] OTHER -> s

(***************************************************************************)
(* Private methods of NgbDropdown.                                         *)
(***************************************************************************)
\* placementArg is <<>> for a call without argument, <<p>> otherwise.
_applyPlacementClasses(s, placementArg) ==
  IF hasMenu
  THEN LET p == IF placementArg = <<>> THEN s.placement[1] ELSE placementArg[1]
           dropdownClass == IF IsTop(p) THEN "dropup" ELSE "dropdown"
       IN [s EXCEPT !.placement = <<p>>,
                    !.menuPlacement = p,
                    !.hostClass = dropdownClass,
                    !.containerClass = IF s._bodyContainer THEN dropdownClass ELSE @]
  ELSE s

\* _positionMenu without the isOpen() test
_positionMenu_whileClosed(s, fits) ==
  LET s1 == [s EXCEPT !.positioned = TRUE]
  IN IF hasMenu
     THEN _applyPlacementClasses(s1, <<positionElements(s1.placement, fits)>>)
     ELSE s1

\* positioned records that the call was made, for the observer of openChange.
_positionMenu(s, fits) ==
  LET s1 == [s EXCEPT !.positioned = TRUE]
  IN IF s1._open /\ hasMenu
     THEN _applyPlacementClasses(s1, <<positionElements(s1.placement, fits)>>)
     ELSE s1

_resetContainer(s) ==
  LET s1 == IF hasMenu
            THEN [s EXCEPT !.menuParent = "host", !.menuPosition = "none"]
            ELSE s
  IN IF s1._bodyContainer
     THEN [s1 EXCEPT !.bodyContainers = IF @ > 0 THEN @ - 1 ELSE 0,
                     !._bodyContainer = FALSE,
                     !.containerClass = "none"]
     ELSE s1

\* this._menuElement.nativeElement is a TypeError without a menu panel.
_applyContainer(s, c) ==
  LET s1 == _resetContainer(s)
  IN IF c = "body"
     THEN IF ~hasMenu
          THEN throw(s1)
          ELSE [s1 EXCEPT !._bodyContainer = TRUE,
                          !.menuPosition = "static",
                          !.menuParent = "container",
                          !.bodyContainers = IF s1._bodyContainer THEN @ ELSE @ + 1]
     ELSE s1

(***************************************************************************)
(* Public methods and lifecycle hooks of NgbDropdown.                      *)
(***************************************************************************)
\* open() without its `if (!this._open)` guard
open_unguarded(s, fits) ==
  LET s1 == _applyContainer([s EXCEPT !._open = TRUE], s.container)
  IN IF s1.threw
     THEN s1
     ELSE emit(_positionMenu(_registerListener(s1), fits), TRUE)

\* open() that emits right after setting _open, before the container, the
\* listener and the placement
open_emitsFirst(s, fits) ==
  IF ~s._open
  THEN LET s0 == emit([s EXCEPT !._open = TRUE], TRUE)
           s1 == _applyContainer(s0, s0.container)
       IN IF s1.threw THEN s1 ELSE _positionMenu(_registerListener(s1), fits)
  ELSE s

open(s, fits) ==
  IF ~s._open
  THEN LET s1 == _applyContainer([s EXCEPT !._open = TRUE], s.container)
       IN IF s1.threw
          THEN s1
          ELSE emit(_positionMenu(_registerListener(s1), fits), TRUE)
  ELSE s

\* close() that forgets to call the remove handle
close_keepsListener(s) ==
  IF s._open
  THEN emit(_resetContainer([s EXCEPT !._open = FALSE]), FALSE)
  ELSE s

close(s) ==
  IF s._open
  THEN LET s1 == callOutsideClickListener(_resetContainer([s EXCEPT !._open = FALSE]))
       IN IF s1.threw THEN s1 ELSE emit(s1, FALSE)
  ELSE s

toggle(s, fits) == IF s._open THEN close(s) ELSE open(s, fits)

\* closeFromClick without the `!this._isEventFromToggle($event)` test
closeFromClick_anyOrigin(s, ev) ==
  IF Truthy(s.autoClose) /\ ev.button # SecondaryButton
  THEN CASE s.autoClose = "true" -> close(s)
         [] s.autoClose = "inside" /\ _isEventFromMenu(ev) -> close(s)
         [] s.autoClose = "outside" /\ ~_isEventFromMenu(ev) -> close(s)
         [] OTHER -> s
  ELSE s

\* closeFromClick with the menu tests of 'inside' and 'outside' exchanged
closeFromClick_swapped(s, ev) ==
  IF Truthy(s.autoClose) /\ ev.button # SecondaryButton /\ ~_isEventFromToggle(ev)
  THEN CASE s.autoClose = "true" -> close(s)
         [] s.autoClose = "inside" /\ ~_isEventFromMenu(ev) -> close(s)
         [] s.autoClose = "outside" /\ _isEventFromMenu(ev) -> close(s)
         [] OTHER -> s
  ELSE s

closeFromClick(s, ev) ==
  IF Truthy(s.autoClose) /\ ev.button # SecondaryButton /\ ~_isEventFromToggle(ev)
  THEN CASE s.autoClose = "true" -> close(s)
         [] s.autoClose = "inside" /\ _isEventFromMenu(ev) -> close(s)
         [] s.autoClose = "outside" /\ ~_isEventFromMenu(ev) -> close(s)
         [] OTHER -> s
  ELSE s

\* closeFromOutsideEsc without the `if (this.autoClose)` test
closeFromOutsideEsc_always(s) == close(s)

closeFromOutsideEsc(s) == IF Truthy(s.autoClose) THEN close(s) ELSE s

\* ngOnInit that registers the listener whatever _open is
ngOnInit_alwaysListens(s) == _registerListener(_applyPlacementClasses(s, <<>>))

ngOnInit(s) ==
  LET s1 == _applyPlacementClasses(s, <<>>)
  IN IF s1._open THEN _registerListener(s1) ELSE s1

\* changes.placement.isFirstChange names the method without calling it: the
\* function object is truthy whatever the change is.
isFirstChangeRef == TRUE

\* ngOnChanges without the `&& this._open` test
ngOnChanges_whileClosed(s, changes) ==
  IF "container" \in changes THEN _applyContainer(s, s.container) ELSE s

\* ngOnChanges calling this._applyContainer() without the container (default null)
ngOnChanges_defaultContainer(s, changes) ==
  IF "container" \in changes /\ s._open THEN _applyContainer(s, "null") ELSE s

\* changes is the set of the inputs that changed.
ngOnChanges(s, changes) ==
  LET s1 == IF "container" \in changes /\ s._open
            THEN _applyContainer(s, s.container)
            ELSE s
  IN IF s1.threw
     THEN s1
     ELSE IF "placement" \in changes /\ ~isFirstChangeRef
          THEN _applyPlacementClasses(s1, <<>>)
          ELSE s1

\* ngOnDestroy that forgets this._zoneSubscription.unsubscribe()
ngOnDestroy_keepsSubscription(s) == _resetContainer(s)

ngOnDestroy(s) == [_resetContainer(s) EXCEPT !._zoneSubscription = FALSE]

(***************************************************************************)
(* The state machine.                                                      *)
(***************************************************************************)
\* The state after the constructor: the configuration comes from the injected
\* NgbDropdownConfig, the content children from the template.
Init ==
  /\ phase = "constructed"
  /\ hasMenu \in BOOLEAN
  /\ origParent \in (IF hasMenu THEN {"host", "inner"} ELSE {"none"})
  /\ menuParent = origParent
  /\ _open = FALSE
  /\ autoClose \in AutoCloseModes
  /\ container \in Containers
  /\ placement \in PlacementLists
  /\ _outsideClickListener = "undefined"
  /\ _bodyContainer = FALSE
  /\ _zoneSubscription = TRUE
  /\ listeners = 0
  /\ bodyContainers = 0
  /\ menuPosition = "none"
  /\ menuPlacement = "bottom"
  /\ hostClass = "none"
  /\ containerClass = "none"
  /\ emitted = <<>>
  /\ threw = FALSE
  /\ lastCall = "constructor"
  /\ event = NoEvent
  /\ changedInputs = {}
  /\ placementInput = placement
  /\ geometry = {}
  /\ observed = <<>>

\* The directive's state becomes s; call and ev record which entry point ran.
Commit(s, call, ev) ==
  /\ _open' = s._open
  /\ autoClose' = s.autoClose
  /\ container' = s.container
  /\ placement' = s.placement
  /\ _outsideClickListener' = s._outsideClickListener
  /\ _bodyContainer' = s._bodyContainer
  /\ _zoneSubscription' = s._zoneSubscription
  /\ listeners' = s.listeners
  /\ bodyContainers' = s.bodyContainers
  /\ menuParent' = s.menuParent
  /\ menuPosition' = s.menuPosition
  /\ menuPlacement' = s.menuPlacement
  /\ hostClass' = s.hostClass
  /\ containerClass' = s.containerClass
  /\ emitted' = s.emitted
  /\ threw' = s.threw
  /\ lastCall' = call
  /\ event' = ev
  /\ changedInputs' = s.changedInputs
  /\ placementInput' = s.placementInput
  /\ geometry' = s.geometry
  /\ observed' = s.observed
  /\ UNCHANGED <<hasMenu, origParent>>

Geometries == SUBSET Placements

\* The `open` binding is set to true with the first change detection.
BindOpen ==
  /\ phase = "constructed"
  /\ ~_open
  /\ Commit(ngOnChanges([This EXCEPT !._open = TRUE, !.changedInputs = {"open"}], {"open"}),
            "ngOnChanges", NoEvent)
  /\ UNCHANGED phase

\* A binding sets the container input; ngOnChanges follows.
SetContainer ==
  /\ phase \in {"constructed", "ready"}
  /\ \E c \in Containers :
       /\ phase = "ready" => c # container
       /\ Commit(ngOnChanges([This EXCEPT !.container = c, !.changedInputs = {"container"}],
                             {"container"}),
                 "ngOnChanges", NoEvent)
  /\ UNCHANGED phase

SetPlacement ==
  /\ phase \in {"constructed", "ready"}
  /\ \E l \in PlacementLists :
       /\ phase = "ready" => l # placement
       /\ Commit(ngOnChanges([This EXCEPT !.placement = l, !.placementInput = l,
                                         !.changedInputs = {"placement"}],
                             {"placement"}),
                 "ngOnChanges", NoEvent)
  /\ UNCHANGED phase

SetAutoClose ==
  /\ phase \in {"constructed", "ready"}
  /\ \E a \in AutoCloseModes :
       /\ phase = "ready" => a # autoClose
       /\ Commit(ngOnChanges([This EXCEPT !.autoClose = a, !.changedInputs = {"autoClose"}],
                             {"autoClose"}),
                 "ngOnChanges", NoEvent)
  /\ UNCHANGED phase

NgOnInit ==
  /\ phase = "constructed"
  /\ listeners < MaxListeners
  /\ Commit(ngOnInit(This), "ngOnInit", NoEvent)
  /\ phase' = "ready"

Open ==
  /\ phase = "ready"
  /\ listeners < MaxListeners
  /\ \E fits \in Geometries : Commit(open(This, fits), "open", NoEvent)
  /\ UNCHANGED phase

Close ==
  /\ phase = "ready"
  /\ Commit(close(This), "close", NoEvent)
  /\ UNCHANGED phase

Toggle ==
  /\ phase = "ready"
  /\ listeners < MaxListeners
  /\ \E fits \in Geometries : Commit(toggle(This, fits), "toggle", NoEvent)
  /\ UNCHANGED phase

\* A click reaches the document; the listener, when one is live, runs
\* closeFromClick.  The listener outlives ngOnInit and ngOnDestroy alike.
DocumentClick ==
  /\ \E ev \in ClickEvents :
       Commit(IF listeners > 0 THEN closeFromClick(This, ev) ELSE This, "click", ev)
  /\ UNCHANGED phase

\* keyup.esc on the host element
EscapeKey ==
  /\ phase = "ready"
  /\ Commit(closeFromOutsideEsc(This), "esc", NoEvent)
  /\ UNCHANGED phase

\* ngZone.onStable emits; the subscriber of the constructor runs while subscribed.
ZoneStable ==
  /\ \E fits \in Geometries :
       Commit(IF _zoneSubscription
              THEN _positionMenu([This EXCEPT !.geometry = fits], fits)
              ELSE [This EXCEPT !.geometry = fits],
              "onStable", NoEvent)
  /\ UNCHANGED phase

\* A click on the NgbDropdownToggle element: its host listener calls toggle(),
\* then the same event bubbles to the document, where the listener (also one
\* registered during this very click) runs closeFromClick.
ToggleClick ==
  /\ phase = "ready"
  /\ listeners < MaxListeners
  /\ \E fits \in Geometries, b \in Buttons :
       LET ev == [origin |-> "anchor", button |-> b]
           s1 == toggle(This, fits)
       IN Commit(IF s1.listeners > 0
                 THEN closeFromClick([s1 EXCEPT !.threw = FALSE], ev)
                 ELSE s1,
                 "toggleClick", ev)
  /\ UNCHANGED phase

Reactions == {"open", "close", "toggle"}

\* The application calls open(), close() or toggle() and its openChange
\* handler calls one of them again from inside the notification.
ObserverReenters ==
  /\ phase = "ready"
  /\ listeners < MaxListeners
  /\ \E fits \in Geometries, m \in Reactions, r \in Reactions :
       LET s == [This EXCEPT !.fits = fits, !.reaction = r, !.reentry = MaxReentry]
       IN Commit(CASE m = "open" -> open(s, fits)
                   [] m = "close" -> close(s)
                   [] OTHER -> toggle(s, fits),
                 "reentrant", NoEvent)
  /\ UNCHANGED phase

NgOnDestroy ==
  /\ phase = "ready"
  /\ Commit(ngOnDestroy(This), "ngOnDestroy", NoEvent)
  /\ phase' = "destroyed"

Next ==
  \/ BindOpen
  \/ SetContainer
  \/ SetPlacement
  \/ SetAutoClose
  \/ NgOnInit
  \/ Open
  \/ Close
  \/ Toggle
  \/ DocumentClick
  \/ EscapeKey
  \/ ZoneStable
  \/ ToggleClick
  \/ ObserverReenters
  \/ NgOnDestroy

Spec == Init /\ [][Next]_vars

\* 'inline' | 'detached' of the specification's DropdownState
containerMode == IF _bodyContainer THEN "detached" ELSE "inline"

TypeOK ==
  /\ phase \in {"constructed", "ready", "destroyed"}
  /\ _open \in BOOLEAN
  /\ autoClose \in AutoCloseModes
  /\ container \in Containers
  /\ placement \in PlacementLists
  /\ _outsideClickListener \in {"undefined", "live", "removed"}
  /\ listeners \in 0..MaxListeners
  /\ bodyContainers \in 0..1
  /\ menuParent \in {"host", "inner", "container", "none"}
  /\ Len(emitted) <= MaxReentry + 1
  /\ Len(observed) = Len(emitted)
  /\ changedInputs \subseteq {"open", "container", "placement", "autoClose"}
  /\ placementInput \in PlacementLists
  /\ geometry \in Geometries

(***************************************************************************)
(* Properties.                                                             *)
(***************************************************************************)
\* The state of the directive and of the elements it owns, without the record
\* of the last call.
progVars ==
  <<_open, autoClose, container, placement, _outsideClickListener, _bodyContainer,
    _zoneSubscription, listeners, bodyContainers, menuParent, menuPosition,
    menuPlacement, hostClass, containerClass>>

\* C1: open() leaves the dropdown open, and open() on an open dropdown changes
\* nothing (isOpen, the listeners, the container) and emits nothing: a second
\* open() in a row leaves the state of the first.
C1_OpenIdempotent ==
  [][lastCall' = "open" =>
       /\ _open'
       /\ bodyContainers' <= 1
       /\ _open => (UNCHANGED progVars /\ emitted' = <<>> /\ ~threw')]_vars

\* An open() that found the dropdown open has returned.
C1_Witness ==
  lastCall = "open" /\ _open /\ emitted = <<>> /\ ~threw /\ listeners = 1

\* C2: every step that takes the dropdown from open to closed leaves the
\* container inline, no body container retained or left in the document, and
\* no live outside-click listener.
C2_CloseRestores ==
  [][(_open /\ ~_open') =>
       /\ containerMode' = "inline"
       /\ bodyContainers' = 0
       /\ menuParent' # "container"
       /\ listeners' = 0]_vars

\* close() has closed a dropdown configured with the body container.
C2_Witness ==
  /\ lastCall = "close" /\ ~_open /\ emitted = <<FALSE>>
  /\ container = "body" /\ hasMenu /\ phase = "ready"

\* C3: at most one outside-click listener is live and at most one body
\* container is in the document, in every reachable state.
C3_SingleOwnership == listeners <= 1 /\ bodyContainers <= 1

\* One listener is live and one body container is in the document.
C3_Witness == listeners = 1 /\ bodyContainers = 1 /\ menuParent = "container"

\* C4: the panel is in a body container only while the dropdown is open; every
\* closed state has the container inline.
C4_DetachedOnlyWhileOpen ==
  (containerMode = "detached" \/ menuParent = "container" \/ bodyContainers > 0)
    => _open

\* A change of the container input has detached the panel of an open dropdown.
C4_Witness ==
  /\ lastCall = "ngOnChanges" /\ phase = "ready"
  /\ containerMode = "detached" /\ _open

\* An open/close transition that ran to its end.
Completed == _open' # _open /\ ~threw' /\ lastCall' # "ngOnChanges"

\* C5: a completed open/close transition emits its new isOpen once, any other
\* call emits nothing, and toggle() on a closed dropdown opens it and emits true
\* (a step in which the observer calls back holds several transitions and is
\* left to C17).
C5_EmitPerTransition ==
  [][lastCall' # "reentrant" =>
       /\ Completed => emitted' = <<_open'>>
       /\ ~Completed => emitted' = <<>>
       /\ (lastCall' = "toggle" /\ ~_open) => (_open' /\ emitted' = <<TRUE>>)]_vars

\* C6: with autoClose false, no document click and no escape key changes the
\* state of an open dropdown or emits.
C6_NeverAutoClose ==
  [][(lastCall' \in {"click", "esc"} /\ autoClose = "false" /\ _open) =>
       (UNCHANGED progVars /\ emitted' = <<>>)]_vars

\* A primary click outside reached the listener of an open dropdown with
\* autoClose false.
C6_Witness ==
  /\ lastCall = "click" /\ autoClose = "false" /\ _open /\ listeners = 1
  /\ event = [origin |-> "outside", button |-> 0]

\* closeFromClick ran on an open dropdown.
ClickHandled == lastCall' = "click" /\ listeners > 0 /\ _open

\* C7 as stated: with autoClose true, every click not from the anchor closes an
\* open dropdown, whatever its button.
C7_ClosesForEveryButton ==
  [][(ClickHandled /\ autoClose = "true" /\ event'.origin # "anchor") => ~_open']_vars

\* C7 amended: with autoClose true, a click handled by closeFromClick closes an
\* open dropdown exactly when its button is not the secondary button and it
\* does not come from the anchor, from the menu as well as from outside; the
\* close emits false.
C7_ClosesUnlessSecondaryOrAnchor ==
  [][(ClickHandled /\ autoClose = "true") =>
       /\ ~_open' <=> (event'.button # SecondaryButton /\ event'.origin # "anchor")
       /\ ~_open' => emitted' = <<FALSE>>]_vars

\* A middle-button click in the menu has closed the dropdown.
C7_Witness ==
  /\ lastCall = "click" /\ autoClose = "true" /\ ~_open /\ emitted = <<FALSE>>
  /\ event = [origin |-> "menu", button |-> 1]

\* C8 as stated: with 'inside' a click from the menu closes and a click from
\* outside does not; with 'outside' a click closes only if it is from outside.
C8_InsideOutsideAnyButton ==
  [][ClickHandled =>
       /\ (autoClose = "inside" /\ event'.origin = "menu") => ~_open'
       /\ (autoClose = "inside" /\ event'.origin = "outside") => _open'
       /\ (autoClose = "outside" /\ ~_open') => event'.origin = "outside"]_vars

\* C8 amended: with 'inside' a click closes exactly when it comes from the menu
\* and its button is not the secondary button; with 'outside' exactly when it
\* comes from outside anchor and menu and its button is not the secondary one.
C8_InsideOutside ==
  [][ClickHandled =>
       /\ autoClose = "inside" =>
            (~_open' <=> (event'.origin = "menu" /\ event'.button # SecondaryButton))
       /\ autoClose = "outside" =>
            (~_open' <=> (event'.origin = "outside" /\ event'.button # SecondaryButton))]_vars

\* A click in the menu has closed a dropdown with autoClose 'inside'.
C8_Witness ==
  /\ lastCall = "click" /\ autoClose = "inside" /\ ~_open /\ emitted = <<FALSE>>
  /\ event.origin = "menu"

\* C9: the escape key closes an open dropdown whenever autoClose is truthy,
\* with the whole close transition (container inline, listener released, false
\* emitted), and does nothing to a closed one.
C9_EscapeCloses ==
  [][lastCall' = "esc" =>
       /\ (_open /\ Truthy(autoClose)) =>
            /\ ~_open'
            /\ containerMode' = "inline"
            /\ listeners' = 0
            /\ emitted' = <<FALSE>>
       /\ ~_open => (UNCHANGED progVars /\ emitted' = <<>>)]_vars

\* C10: after ngOnDestroy no outside-click listener is live.
C10_TeardownReleasesListener == phase = "destroyed" => listeners = 0

\* C11: ngOnDestroy, from an open or a closed dropdown, leaves the container
\* inline, no body container in the document and the onStable subscription
\* released; an onStable signal after it changes nothing.
C11_TeardownDetachesAndUnsubscribes ==
  [][/\ phase' = "destroyed" =>
          /\ containerMode' = "inline"
          /\ bodyContainers' = 0
          /\ menuParent' # "container"
          /\ ~_zoneSubscription'
     /\ (phase = "destroyed" /\ lastCall' = "onStable") => UNCHANGED progVars]_vars

\* An onStable signal has arrived after the teardown of an open dropdown whose
\* first configured placement does not fit while another one does.
C11_Witness ==
  /\ phase = "destroyed" /\ lastCall = "onStable" /\ _open /\ hasMenu
  /\ Len(placement) = 2 /\ geometry = {placement[2]}

\* The placement class _applyPlacementClasses gives to placement p.
ClassOf(p) == IF IsTop(p) THEN "dropup" ELSE "dropdown"

\* C12: every change of the placement input after ngOnInit re-applies the
\* placement classes at once for the first placement newly configured, on an
\* open and on a closed dropdown.
C12_PlacementChangeReapplies ==
  [][(lastCall' = "ngOnChanges" /\ changedInputs' = {"placement"}
        /\ phase = "ready" /\ hasMenu) =>
       /\ hostClass' = ClassOf(placementInput'[1])
       /\ menuPlacement' = placementInput'[1]]_vars

\* C13: every onStable signal on an open dropdown applies the first candidate
\* of the configured placement list that fits the geometry of that moment, the
\* first configured candidate when none fits.
C13_ReplacementUsesConfiguredList ==
  [][(lastCall' = "onStable" /\ _zoneSubscription /\ _open /\ hasMenu) =>
       /\ menuPlacement' = positionElements(placementInput, geometry')
       /\ hostClass' = ClassOf(positionElements(placementInput, geometry'))]_vars

\* C14: an onStable signal never changes isOpen, the outside-click listener,
\* the container or the panel's parent and emits nothing; on a closed dropdown
\* it changes nothing at all, also when it arrives after a close().
C14_StableSignalFrame ==
  [][lastCall' = "onStable" =>
       /\ UNCHANGED <<_open, autoClose, container, _outsideClickListener, listeners,
                      _bodyContainer, bodyContainers, menuParent, menuPosition,
                      _zoneSubscription>>
       /\ emitted' = <<>>
       /\ ~threw'
       /\ ~_open => UNCHANGED progVars]_vars

\* A signal has arrived on a dropdown that was open, whose placement input
\* changed and that was closed before the signal.
C14_Witness ==
  /\ lastCall = "onStable" /\ ~_open /\ phase = "ready" /\ hasMenu
  /\ _outsideClickListener = "removed"
  /\ menuPlacement # placement[1]

\* C15: with a menu panel, a change of the container input on an open dropdown
\* leaves the panel in a body container exactly when the new value is 'body',
\* with exactly one container in the document then and none otherwise; a change
\* on a closed dropdown leaves the container inline, and the next open()
\* detaches exactly when the container configured by then is 'body'.
C15_ContainerChangeReapplies ==
  [][hasMenu =>
       /\ (lastCall' = "ngOnChanges" /\ changedInputs' = {"container"}) =>
            IF _open
            THEN /\ containerMode' = "detached" <=> container' = "body"
                 /\ menuParent' = "container" <=> container' = "body"
                 /\ bodyContainers' = (IF container' = "body" THEN 1 ELSE 0)
            ELSE /\ containerMode' = "inline"
                 /\ bodyContainers' = 0
                 /\ menuParent' = menuParent
       /\ (lastCall' \in {"open", "toggle"} /\ ~_open) =>
            /\ containerMode' = "detached" <=> container = "body"
            /\ bodyContainers' = (IF container = "body" THEN 1 ELSE 0)]_vars

\* The container input of an open, initialised dropdown has changed to 'body'
\* and the panel is in the one body container.
C15_Witness ==
  /\ lastCall = "ngOnChanges" /\ changedInputs = {"container"} /\ phase = "ready"
  /\ _open /\ hasMenu /\ container = "body"
  /\ containerMode = "detached" /\ bodyContainers = 1

\* C16: without a menu panel no open(), close(), toggle(), onStable signal or
\* document click ends in an error, no placement is applied,
\* and a click is judged as not from the menu: with 'inside' it does not close,
\* with 'outside' a click that is not from the anchor (and not of the secondary
\* button) closes.
C16_NoMenuNoFailure ==
  [][(~hasMenu /\ lastCall' \in {"open", "close", "toggle", "onStable", "click"}) =>
       /\ ~threw'
       /\ UNCHANGED <<menuPlacement, hostClass, containerClass>>
       /\ (ClickHandled /\ autoClose = "inside") => _open'
       /\ (ClickHandled /\ autoClose = "outside" /\ event'.origin # "anchor"
             /\ event'.button # SecondaryButton) => ~_open']_vars

\* C17: at every emission of openChange the observer reads a state in which
\* the steps before the emission are done: with payload true the dropdown is
\* open, the container is as configured, the listener is live and the placement
\* was computed; with payload false it is closed, the container is inline and
\* no listener is live.  This holds for the emissions of a call the observer
\* makes from its handler as well.
C17_ObserverSeesFinishedTransition ==
  \A i \in DOMAIN observed :
    LET o == observed[i]
    IN IF o.payload
       THEN /\ o.isOpen
            /\ o.detached <=> o.container = "body"
            /\ o.listeners = 1 /\ o.handle = "live"
            /\ o.positioned
       ELSE /\ ~o.isOpen
            /\ ~o.detached
            /\ o.listeners = 0 /\ o.handle # "live"

\* The handler of the notification of an open() has closed the dropdown: the
\* observer was notified of true, then from inside that notification of false.
C17_Witness ==
  /\ lastCall = "reentrant" /\ Len(observed) = 2
  /\ observed[1].payload /\ ~observed[2].payload
  /\ ~_open /\ container = "body" /\ hasMenu

\* C18: after close() or teardown the menu panel is again under the parent it
\* had in the template, whether that parent is the dropdown host or a
\* descendant of it, and it carries no position override.
C18_DetachRestoresOriginalParent ==
  [][(hasMenu /\ lastCall' \in {"close", "ngOnDestroy"}) =>
       /\ menuParent' = origParent
       /\ menuPosition' = "none"]_vars

\* C19: one click on the toggle element, handled first by the toggle's own
\* click handler and then by the document handler, flips the state exactly
\* once and emits exactly one notification, for every autoClose mode.
C19_ToggleClickFlipsOnce ==
  [][lastCall' = "toggleClick" =>
       /\ _open' = ~_open
       /\ emitted' = <<_open'>>]_vars

\* C20: in every Open state between initialization and teardown the panel is
\* in a detached container exactly when container is 'body', also for a
\* dropdown that starts Open through the `open` input.
C20_ContainerModeMatchesConfig ==
  (phase = "ready" /\ _open /\ hasMenu /\ ~threw) =>
    (containerMode = "detached" <=> container = "body")

====
